---- MODULE Spec2Model ----
(***************************************************************************)
(* Model of generate_talos_configs.py: the endpoint/SAN resolution of      *)
(* gen_base_configs, the per-node patcher patch_node (over an explicit     *)
(* object heap, so that aliasing between documents is observable), and the *)
(* sequential pipeline main -> gen_base_configs -> create_node_configs ->  *)
(* validate_files.                                                         *)
(***************************************************************************)
EXTENDS Integers, Sequences, FiniteSets, TLC

VARIABLES
    a,          \* the parsed arguments (argparse namespace) after the CSV split
    pc,         \* position of the run in main
    cmd,        \* the generator command line built by gen_base_configs
    talosconfig,\* the talosconfig file: <<>> when absent, else <<contexts>>
    insecure,   \* the talosconfig.insecure file, same shape
    tplfiles,   \* controlplane.yaml / worker.yaml as deposited by the generator
    heap,       \* the Python object heap: a sequence of dict / list objects
    cp_tpl,     \* address of the loaded control-plane template (0: not loaded)
    wk_tpl,     \* address of the loaded worker template (0: not loaded)
    out,        \* the written node documents: file name -> serialized document
    generated,  \* create_node_configs' list of written paths
    nvalidated, \* how many entries of generated validate_files has passed
    log,        \* the run's observable steps, in order
    exit_code,  \* the process exit status (-1 while running)
    docs,       \* patch_node results still referenced by a caller (addresses)
    tpl0        \* the template's content when it was loaded

vars == <<a, pc, cmd, talosconfig, insecure, tplfiles, heap, cp_tpl, wk_tpl,
          out, generated, nvalidated, log, exit_code, docs, tpl0>>

(***************************************************************************)
(* Bounds of the model.                                                    *)
(***************************************************************************)
MaxCP == 2
MaxWorkers == 2
MaxCalls == 2

(***************************************************************************)
(* Python values.  A value is a reference to a heap object (dict or list)  *)
(* or an immutable scalar.  An optional string (str | None) is <<>> for    *)
(* None and <<s>> for the string s.                                        *)
(***************************************************************************)
Ref(addr) == [tag |-> "ref", a |-> addr, s |-> ""]
Str(s) == [tag |-> "str", a |-> 0, s |-> s]
BoolV(b) == [tag |-> "bool", a |-> 0, s |-> IF b THEN "True" ELSE "False"]
NoneV == [tag |-> "none", a |-> 0, s |-> ""]

None == <<>>
Some(s) == <<s>>

\* Python truthiness of a str | None (if a.vip: ...)
Truthy(v) == v # None /\ v[1] # ""

Dict(items) == [kind |-> "dict", items |-> items]
EmptyDict == Dict(<<>>)
List1(v) == [kind |-> "list", items |-> ("0" :> v)]
List2(v, w) == [kind |-> "list", items |-> ("0" :> v @@ "1" :> w)]

IsDict(h, v) == v.tag = "ref" /\ h[v.a].kind = "dict"

\* d[k] = v
SetItem(h, addr, k, v) ==
    [h EXCEPT ![addr].items = (k :> v) @@ h[addr].items]

\* a freshly allocated object; its address is Len(h) + 1
Alloc(h, obj) == Append(h, obj)

\* d[k] = <a fresh object obj>
SetNew(h, addr, k, obj) == SetItem(Alloc(h, obj), addr, k, Ref(Len(h) + 1))

\* mutant of SetDefault: d[k] = {} whether or not k is present
SetDefaultOverwrites(h, addr, k) ==
    [h |-> SetNew(h, addr, k, EmptyDict), v |-> Ref(Len(h) + 1)]

\* d.setdefault(k, {}): the value at k, a fresh empty dict stored there when absent
SetDefault(h, addr, k) ==
    IF k \in DOMAIN h[addr].items
    THEN [h |-> h, v |-> h[addr].items[k]]
    ELSE [h |-> SetNew(h, addr, k, EmptyDict), v |-> Ref(Len(h) + 1)]

\* Python truthiness of an arbitrary value (if cfg.get(...).get(...): ...)
TruthyVal(h, v) ==
    CASE v.tag = "ref" -> DOMAIN h[v.a].items # {}
      [] v.tag = "str" -> v.s # ""
      [] v.tag = "bool" -> v.s = "True"
      [] OTHER -> FALSE

(***************************************************************************)
(* copy.deepcopy: every object reachable from the root gets one fresh      *)
(* copy (the memo keeps sharing inside the copy), scalars are shared.      *)
(***************************************************************************)
Children(h, addr) ==
    {h[addr].items[k].a : k \in {x \in DOMAIN h[addr].items : h[addr].items[x].tag = "ref"}}

RECURSIVE ReachFrom(_, _, _)
ReachFrom(h, frontier, seen) ==
    IF frontier = {} THEN seen
    ELSE LET nxt == UNION {Children(h, x) : x \in frontier} \ (seen \cup frontier)
         IN  ReachFrom(h, nxt, seen \cup frontier)

Reach(h, root) == ReachFrom(h, {root}, {})

\* mutant of deepcopy: copy.copy, a new top-level dict over the same children
ShallowCopy(h, root) == [h |-> Alloc(h, h[root]), root |-> Len(h) + 1]

deepcopy(h, root) ==
    LET R == Reach(h, root)
        Rank(x) == Cardinality({y \in R : y <= x})
        New(x) == Len(h) + Rank(x)
        Remap(v) == IF v.tag = "ref" THEN Ref(New(v.a)) ELSE v
        Copy(x) == [kind |-> h[x].kind,
                    items |-> [k \in DOMAIN h[x].items |-> Remap(h[x].items[k])]]
        fresh == [i \in 1..Cardinality(R) |-> Copy(CHOOSE x \in R : Rank(x) = i)]
    IN  [h |-> h \o fresh, root |-> New(root)]

(***************************************************************************)
(* yaml_dump: the document as a tree, one record per path.                 *)
(***************************************************************************)
RECURSIVE DumpVal(_, _, _)
DumpVal(h, v, path) ==
    IF v.tag = "ref"
    THEN {[path |-> path, t |-> h[v.a].kind, s |-> ""]}
         \cup UNION {DumpVal(h, h[v.a].items[k], Append(path, k)) : k \in DOMAIN h[v.a].items}
    ELSE {[path |-> path, t |-> v.tag, s |-> v.s]}

yaml_dump(h, root) == DumpVal(h, Ref(root), <<>>)

\* yaml_load of a parsed file (a heap fragment whose root is its first object)
yaml_load(h, frag) ==
    LET off == Len(h)
        Shift(v) == IF v.tag = "ref" THEN Ref(v.a + off) ELSE v
    IN  h \o [i \in 1..Len(frag) |->
                [kind |-> frag[i].kind,
                 items |-> [k \in DOMAIN frag[i].items |-> Shift(frag[i].items[k])]]]

(***************************************************************************)
(* patch_node.  p carries the keyword arguments: ip, cidr, gw, ns, ifname, *)
(* disk, vip (str | None) and enable_ccm.  The result is [ok, h, root]:    *)
(* ok is FALSE when a statement raises (a container of the template is not *)
(* a dict), and then nothing is returned.                                  *)
(***************************************************************************)
QemuImage == "ghcr.io/siderolabs/qemu-guest-agent:9.2.0"
KernelArg == "net.ifnames=0"
CcmManifest ==
    "https://raw.githubusercontent.com/siderolabs/talos-cloud-controller-manager/main/docs/deploy/cloud-controller-manager.yml"
ApproverManifest ==
    "https://raw.githubusercontent.com/alex1989hu/kubelet-serving-cert-approver/main/deploy/standalone-install.yaml"

\* install_config["disk"], ["extensions"], ["extraKernelArgs"]
PatchInstall(h, inst, p) ==
    LET h1 == SetItem(h, inst, "disk", Str(p.disk))
        h2 == Alloc(h1, Dict("image" :> Str(QemuImage)))
        h3 == SetNew(h2, inst, "extensions", List1(Ref(Len(h1) + 1)))
    IN  SetNew(h3, inst, "extraKernelArgs", List1(Str(KernelArg)))

\* if vip:
VipGiven(vip) == Truthy(vip)

\* the iface literal, with its vip block when a vip is given
BuildIface(h, p) ==
    LET n == Len(h)
        h1 == Alloc(h, List1(Str(p.ip \o "/" \o p.cidr)))
        h2 == Alloc(h1, Dict("network" :> Str("0.0.0.0/0") @@ "gateway" :> Str(p.gw)))
        h3 == Alloc(h2, List1(Ref(n + 2)))
        h4 == Alloc(h3, Dict("interface" :> Str(p.ifname) @@ "dhcp" :> BoolV(FALSE)
                             @@ "addresses" :> Ref(n + 1) @@ "routes" :> Ref(n + 3)))
        h5 == IF VipGiven(p.vip)
              THEN SetNew(h4, n + 4, "vip", Dict("ip" :> Str(p.vip[1])))
              ELSE h4
    IN  [h |-> h5, iface |-> n + 4]

\* mnet["interfaces"] = [iface]; mnet["nameservers"] = [ns]
PatchNetwork(h, mnet, p) ==
    LET b == BuildIface(h, p)
        h1 == SetNew(b.h, mnet, "interfaces", List1(Ref(b.iface)))
    IN  SetNew(h1, mnet, "nameservers", List1(Str(p.ns)))

\* mutant of CcmRequested: the cloud-provider settings are applied unconditionally
CcmRequestedAlways(enable_ccm) == TRUE

\* if enable_ccm:
CcmRequested(enable_ccm) == enable_ccm

\* features["kubernetesTalosAPIAccess"] = {...}
PatchFeatures(h, features) ==
    LET n == Len(h)
        h1 == Alloc(h, List1(Str("os:reader")))
        h2 == Alloc(h1, List1(Str("kube-system")))
    IN  SetNew(h2, features, "kubernetesTalosAPIAccess",
               Dict("enabled" :> BoolV(TRUE) @@ "allowedRoles" :> Ref(n + 1)
                    @@ "allowedKubernetesNamespaces" :> Ref(n + 2)))

\* cfg.get("cluster", {}): raises nothing; the value, or a fresh empty dict
\* that is not stored in cfg
GetOrEmpty(h, addr, k) ==
    IF k \in DOMAIN h[addr].items
    THEN [h |-> h, v |-> h[addr].items[k]]
    ELSE [h |-> Alloc(h, EmptyDict), v |-> Ref(Len(h) + 1)]

\* cluster["externalCloudProvider"] = {...}
PatchCluster(h, cfg) ==
    LET c == SetDefault(h, cfg, "cluster")
        n == Len(c.h)
        h1 == Alloc(c.h, List2(Str(CcmManifest), Str(ApproverManifest)))
    IN  SetNew(h1, c.v.a, "externalCloudProvider",
               Dict("enabled" :> BoolV(TRUE) @@ "manifests" :> Ref(n + 1)))

\* the interpreter's position in patch_node: the heap, the copy cfg, and the
\* sub-dicts it holds in machine / kubelet / extraArgs (0: not yet fetched);
\* ok turns FALSE when a statement raises
Raised(st, h) == [st EXCEPT !.ok = FALSE, !.h = h, !.root = 0]

\* cfg = copy.deepcopy(base)
StepCopy(h, base) ==
    LET c == deepcopy(h, base)
    IN  [ok |-> TRUE, h |-> c.h, root |-> c.root, machine |-> 0, kubelet |-> 0, args |-> 0]

\* cfg.setdefault("machine", {})
StepMachine(st) ==
    LET m == SetDefault(st.h, st.root, "machine")
    IN  IF IsDict(m.h, m.v) THEN [st EXCEPT !.h = m.h, !.machine = m.v.a]
        ELSE Raised(st, m.h)

\* .setdefault("install", {}) and the three install settings
StepInstall(st, p) ==
    IF ~st.ok THEN st
    ELSE LET i == SetDefault(st.h, st.machine, "install")
         IN  IF IsDict(i.h, i.v) THEN [st EXCEPT !.h = PatchInstall(i.h, i.v.a, p)]
             ELSE Raised(st, i.h)

\* mnet = cfg["machine"].setdefault("network", {}) and the two network settings
StepNetwork(st, p) ==
    IF ~st.ok THEN st
    ELSE LET n == SetDefault(st.h, st.machine, "network")
         IN  IF IsDict(n.h, n.v) THEN [st EXCEPT !.h = PatchNetwork(n.h, n.v.a, p)]
             ELSE Raised(st, n.h)

\* kubelet = cfg["machine"].setdefault("kubelet", {})
StepKubelet(st) ==
    IF ~st.ok THEN st
    ELSE LET k == SetDefault(st.h, st.machine, "kubelet")
         IN  IF IsDict(k.h, k.v) THEN [st EXCEPT !.h = k.h, !.kubelet = k.v.a]
             ELSE Raised(st, k.h)

\* kubelet.setdefault("extraArgs", {}); ...["rotate-server-certificates"] = "true"
StepExtraArgs(st) ==
    IF ~st.ok THEN st
    ELSE LET x == SetDefault(st.h, st.kubelet, "extraArgs")
         IN  IF IsDict(x.h, x.v)
             THEN [st EXCEPT !.h = SetItem(x.h, x.v.a, "rotate-server-certificates", Str("true")),
                             !.args = x.v.a]
             ELSE Raised(st, x.h)

\* kubelet["extraArgs"]["cloud-provider"] = "external"
StepCloudProvider(st) ==
    [st EXCEPT !.h = SetItem(st.h, st.args, "cloud-provider", Str("external"))]

\* features = cfg["machine"].setdefault("features", {}) and the feature flag
StepFeatures(st) ==
    LET f == SetDefault(st.h, st.machine, "features")
    IN  IF IsDict(f.h, f.v) THEN [st EXCEPT !.h = PatchFeatures(f.h, f.v.a)]
        ELSE Raised(st, f.h)

\* if cfg.get("cluster", {}).get("controlPlane", {}):
HasControlPlane(h, cluster) ==
    "controlPlane" \in DOMAIN h[cluster].items
    /\ TruthyVal(h, h[cluster].items["controlPlane"])

\* the control-plane test and the cluster-level block
StepCluster(st) ==
    IF ~st.ok THEN st
    ELSE LET g == GetOrEmpty(st.h, st.root, "cluster")
         IN  IF ~IsDict(g.h, g.v) THEN Raised(st, g.h)
             ELSE IF HasControlPlane(g.h, g.v.a) THEN [st EXCEPT !.h = PatchCluster(g.h, st.root)]
             ELSE [st EXCEPT !.h = g.h]

\* the if enable_ccm: block
StepCcm(st, p) ==
    IF ~st.ok \/ ~CcmRequested(p.enable_ccm) THEN st
    ELSE StepCluster(StepFeatures(StepCloudProvider(st)))

patch_node(h, base, p) ==
    StepCcm(StepExtraArgs(StepKubelet(StepNetwork(StepInstall(
        StepMachine(StepCopy(h, base)), p), p))), p)

\* the objects patch_node allocated become garbage once its result is dropped
Collect(h, n) == SubSeq(h, 1, n)

(***************************************************************************)
(* The template documents.  A template is what yaml_load returns for a     *)
(* file written by `talosctl gen config`: a tree of dicts, lists and       *)
(* scalars.  o says which of the sections the patcher reads are present;   *)
(* every section carries a key the patcher never sets.                     *)
(***************************************************************************)
TemplateOpts ==
    [machine : {"absent", "present"}, install : {"absent", "present"},
     network : {"absent", "present", "null"}, kubelet : {"absent", "noargs", "args"},
     features : {"absent", "present"}, cluster : {"absent", "nocp", "emptycp", "cp"}]

\* the network section of a template: a sibling key and an interface list
\* that already carries a vip block
WithNetwork(h, machine) ==
    LET n == Len(h)
        h1 == Alloc(h, Dict("ip" :> Str("10.0.0.99")))
        h2 == Alloc(h1, Dict("interface" :> Str("eth0") @@ "dhcp" :> BoolV(TRUE)
                             @@ "vip" :> Ref(n + 1)))
        h3 == Alloc(h2, List1(Ref(n + 2)))
    IN  SetNew(h3, machine, "network",
               Dict("hostname" :> Str("talos") @@ "interfaces" :> Ref(n + 3)))

WithKubelet(h, machine, withArgs) ==
    LET n == Len(h)
        h1 == Alloc(h, Dict("image" :> Str("ghcr.io/siderolabs/kubelet:v1.33.1")))
        h2 == IF withArgs
              THEN SetNew(h1, n + 1, "extraArgs", Dict("node-labels" :> Str("zone=a")))
              ELSE h1
    IN  SetItem(h2, machine, "kubelet", Ref(n + 1))

WithCluster(h, kind) ==
    LET n == Len(h)
        h1 == SetNew(h, 1, "cluster", Dict("clusterName" :> Str("my-k8s-cluster")))
    IN  CASE kind = "nocp" -> h1
          [] kind = "emptycp" -> SetNew(h1, n + 1, "controlPlane", EmptyDict)
          [] OTHER -> SetNew(h1, n + 1, "controlPlane",
                             Dict("endpoint" :> Str("https://10.0.0.11:6443")))

WithMachine(h, o) ==
    IF o.machine = "present" THEN SetNew(h, 1, "machine", Dict("token" :> Str("secret")))
    ELSE h

WithInstall(h, o) ==
    IF o.install = "present"
    THEN SetNew(h, 2, "install", Dict("disk" :> Str("/dev/sda") @@ "wipe" :> BoolV(FALSE)))
    ELSE h

WithNetworkOpt(h, o) ==
    CASE o.network = "present" -> WithNetwork(h, 2)
      [] o.network = "null" -> SetItem(h, 2, "network", NoneV)
      [] OTHER -> h

WithKubeletOpt(h, o) ==
    IF o.kubelet = "absent" THEN h ELSE WithKubelet(h, 2, o.kubelet = "args")

WithFeatures(h, o) ==
    IF o.features = "present" THEN SetNew(h, 2, "features", Dict("rbac" :> BoolV(TRUE)))
    ELSE h

WithClusterOpt(h, o) ==
    IF o.cluster = "absent" THEN h ELSE WithCluster(h, o.cluster)

\* the parsed file: a heap fragment whose root dict is its first object and
\* whose machine section, when present, is its second
Template(o) ==
    WithClusterOpt(WithFeatures(WithKubeletOpt(WithNetworkOpt(WithInstall(
        WithMachine(<<Dict("version" :> Str("v1alpha1"))>>, o), o), o), o), o), o)

\* a template without a machine section has none of its sub-sections
WellFormedOpts(o) ==
    o.machine = "absent" =>
        /\ o.install = "absent" /\ o.network = "absent"
        /\ o.kubelet = "absent" /\ o.features = "absent"

Templates == {o \in TemplateOpts : WellFormedOpts(o)}

\* what the generator writes: every machine section present and a cluster
\* section; controlplane.yaml always carries the cluster.controlPlane section
\* (the endpoint handed to the generator), worker.yaml carries whatever the
\* generator's version puts there
ControlPlaneTemplates ==
    {o \in TemplateOpts :
        /\ o.machine = "present" /\ o.install = "present" /\ o.network = "present"
        /\ o.kubelet = "noargs" /\ o.features = "present" /\ o.cluster = "cp"}

WorkerTemplates ==
    {o \in TemplateOpts :
        /\ o.machine = "present" /\ o.install = "present" /\ o.network = "present"
        /\ o.kubelet = "noargs" /\ o.features = "present" /\ o.cluster # "absent"}

(***************************************************************************)
(* Node parameters.                                                        *)
(***************************************************************************)
CpIPs == {"10.0.0.11", "10.0.0.12"}
VipIP == "10.0.0.10"
Cidr == "24"
Gateway == "10.0.0.1"
Nameserver == "1.1.1.1"
IFNAME_DEFAULT == "ens18"
DISK_DEFAULT == "/dev/vda"

NodeParams(ip, vip, ccm) ==
    [ip |-> ip, cidr |-> Cidr, gw |-> Gateway, ns |-> Nameserver,
     ifname |-> IFNAME_DEFAULT, disk |-> DISK_DEFAULT, vip |-> vip, enable_ccm |-> ccm]

NoArgs ==
    [vip |-> None, control_planes |-> <<>>, workers |-> <<>>, endpoint |-> "",
     bootstrap_phase |-> FALSE, ha_phase |-> FALSE, enable_ccm |-> FALSE]

NoCmd == [called |-> FALSE, endpoint_url |-> "", sans |-> <<>>]

(***************************************************************************)
(* patch_node as a function of its caller: a template is loaded, the       *)
(* caller patches it up to MaxCalls times keeping every result, and may    *)
(* then write into the network, install or kubelet section of a result.    *)
(***************************************************************************)
InitPatch ==
    /\ \E o \in Templates : heap = Template(o)
    /\ cp_tpl = 1
    /\ tpl0 = yaml_dump(heap, 1)
    /\ docs = <<>>
    /\ pc = "patching"
    /\ a = NoArgs /\ cmd = NoCmd /\ talosconfig = <<>> /\ insecure = <<>>
    /\ tplfiles = <<>> /\ wk_tpl = 0 /\ out = <<>> /\ generated = <<>>
    /\ nvalidated = 0 /\ log = <<>> /\ exit_code = -1

PipelineUnchanged ==
    UNCHANGED <<a, cmd, talosconfig, insecure, tplfiles, wk_tpl, out, generated,
                nvalidated, exit_code>>

CallPatchNode(p) ==
    LET r == patch_node(heap, cp_tpl, p)
    IN  /\ pc = "patching"
        /\ Len(docs) < MaxCalls
        /\ r.ok
        /\ heap' = r.h
        /\ docs' = Append(docs, r.root)
        /\ log' = Append(log, [op |-> "patch", file |-> p.ip])
        /\ UNCHANGED <<pc, cp_tpl, tpl0>>
        /\ PipelineUnchanged

CallPatchNodeRaises(p) ==
    LET r == patch_node(heap, cp_tpl, p)
    IN  /\ pc = "patching"
        /\ Len(docs) < MaxCalls
        /\ ~r.ok
        /\ heap' = r.h
        /\ pc' = "raised"
        /\ log' = Append(log, [op |-> "raise", file |-> p.ip])
        /\ UNCHANGED <<docs, cp_tpl, tpl0>>
        /\ PipelineUnchanged

Sections == {"network", "install", "kubelet"}

\* the caller's doc["machine"][section]["mutated"] = "x" on the i-th result
MutateDoc(i, section) ==
    LET m == heap[docs[i]].items["machine"].a
        sec == heap[m].items[section].a
    IN  /\ pc = "patching"
        /\ i \in 1..Len(docs)
        /\ heap' = SetItem(heap, sec, "mutated", Str("x"))
        /\ pc' = "mutated"
        /\ log' = Append(log, [op |-> "mutate", file |-> section])
        /\ UNCHANGED <<docs, cp_tpl, tpl0>>
        /\ PipelineUnchanged

\* the node addresses a caller patches for, one after the other
NodeIPs == <<"10.0.0.11", "10.0.0.12", "10.0.0.21">>
NextIP == NodeIPs[(Len(docs) % Len(NodeIPs)) + 1]

PatchCalls ==
    {NodeParams(NextIP, vip, ccm) : vip \in {None, Some(VipIP)}, ccm \in BOOLEAN}

NextPatch ==
    \/ \E p \in PatchCalls : CallPatchNode(p)
    \/ \E p \in PatchCalls : CallPatchNodeRaises(p)
    \/ \E i \in 1..MaxCalls, section \in Sections : MutateDoc(i, section)

SpecPatch == InitPatch /\ [][NextPatch]_vars

(***************************************************************************)
(* gen_base_configs: the endpoint URL and the SAN list.                    *)
(***************************************************************************)
\* main: bootstrap_phase = a.bootstrap_phase or not a.ha_phase
BootstrapPhase(args) == args.bootstrap_phase \/ ~args.ha_phase

\* mutant of endpoint_url: the VIP is the endpoint whenever one is configured
EndpointUrlVipFirst(args, bootstrap_phase) ==
    IF Truthy(args.vip) THEN "https://" \o args.vip[1] \o ":6443"
    ELSE "https://" \o args.endpoint

\* mutant of endpoint_url: the port is appended to the explicit endpoint too
EndpointUrlAddsPort(args, bootstrap_phase) ==
    IF bootstrap_phase /\ Truthy(args.vip)
    THEN "https://" \o args.control_planes[1] \o ":6443"
    ELSE IF Truthy(args.vip) THEN "https://" \o args.vip[1] \o ":6443"
         ELSE "https://" \o args.endpoint \o ":6443"

\* endpoint_url; control_planes[0] raises IndexError on an empty list, which
\* GenBaseConfigsRaises covers
endpoint_url(args, bootstrap_phase) ==
    IF bootstrap_phase /\ Truthy(args.vip)
    THEN "https://" \o args.control_planes[1] \o ":6443"
    ELSE IF Truthy(args.vip) THEN "https://" \o args.vip[1] \o ":6443"
         ELSE "https://" \o args.endpoint

Elems(seq) == {seq[i] : i \in 1..Len(seq)}

\* list(dict.fromkeys(seq)): the keys in insertion order, a repeated key
\* keeping its first position
RECURSIVE FromKeys(_, _)
FromKeys(seq, keys) ==
    IF seq = <<>> THEN keys
    ELSE FromKeys(Tail(seq), IF Head(seq) \in Elems(keys) THEN keys ELSE Append(keys, Head(seq)))

\* mutant of sans: the list is not de-duplicated
SansWithDuplicates(args) ==
    (IF Truthy(args.vip) THEN <<args.vip[1]>> ELSE <<>>) \o args.control_planes

\* sans
sans(args) ==
    FromKeys((IF Truthy(args.vip) THEN <<args.vip[1]>> ELSE <<>>) \o args.control_planes, <<>>)

\* the exit codes a failing talosctl is given: an ordinary failure, a kill by signal
ReturnCodes == {1, -9}

\* the status the shell sees for sys.exit(n)
ExitStatus(n) == n % 256

\* mutant of sh: the failure is reported but the run goes on
ShFailsAndContinues(rc) == [pc |-> pc, exit_code |-> exit_code]

\* sh, given the command's return code: on CalledProcessError (a non-zero
\* code), sys.exit(exc.returncode); otherwise the caller goes on
sh(rc) ==
    IF rc # 0 THEN [pc |-> "exited", exit_code |-> ExitStatus(rc)]
    ELSE [pc |-> pc, exit_code |-> exit_code]

Event(op, file) == [op |-> op, file |-> file]

\* the talosconfig the generator writes: absent, or one context, not insecure
GeneratedTalosconfigs == {<<>>, <<[admin |-> FALSE]>>}

\* for every context: config["contexts"][name]["insecure"] = True
MakeInsecure(tc) == IF tc = <<>> THEN tc ELSE <<[c \in DOMAIN tc[1] |-> TRUE]>>

NodeStateUnchanged == UNCHANGED <<heap, cp_tpl, wk_tpl, out, generated, nvalidated, docs, tpl0>>

\* control_planes[0] on an empty list, before any command is run
GenBaseConfigsRaises ==
    /\ pc = "gen_base_configs"
    /\ BootstrapPhase(a) /\ Truthy(a.vip) /\ a.control_planes = <<>>
    /\ pc' = "crashed"
    /\ exit_code' = 1
    /\ log' = Append(log, Event("raise", "gen_base_configs"))
    /\ UNCHANGED <<a, cmd, talosconfig, insecure, tplfiles>>
    /\ NodeStateUnchanged

CanBuildCommand ==
    ~(BootstrapPhase(a) /\ Truthy(a.vip) /\ a.control_planes = <<>>)

BuiltCommand ==
    [called |-> TRUE, endpoint_url |-> endpoint_url(a, BootstrapPhase(a)), sans |-> sans(a)]

\* the generator fails: sh exits, nothing after it in gen_base_configs runs
GenBaseConfigsFails(rc) ==
    /\ pc = "gen_base_configs"
    /\ CanBuildCommand
    /\ cmd' = BuiltCommand
    /\ pc' = IF sh(rc).pc = "exited" THEN "exited" ELSE "create_node_configs"
    /\ exit_code' = sh(rc).exit_code
    /\ log' = Append(log, Event("generate-failed", ""))
    /\ UNCHANGED <<a, talosconfig, insecure, tplfiles>>
    /\ NodeStateUnchanged

\* the generator succeeds and deposits its files; the talosconfig, when it
\* exists, is rewritten insecure and copied
gen_base_configs(ocp, owk, tc) ==
    /\ pc = "gen_base_configs"
    /\ CanBuildCommand
    /\ cmd' = BuiltCommand
    /\ tplfiles' = <<Template(ocp), Template(owk)>>
    /\ talosconfig' = MakeInsecure(tc)
    /\ insecure' = MakeInsecure(tc)
    /\ log' = IF tc = <<>> THEN Append(log, Event("generate", ""))
              ELSE log \o <<Event("generate", ""), Event("rewrite", "talosconfig")>>
    /\ pc' = "create_node_configs"
    /\ UNCHANGED <<a, exit_code>>
    /\ NodeStateUnchanged

(***************************************************************************)
(* create_node_configs and validate_files.                                 *)
(***************************************************************************)
IdxStr == <<"1", "2", "3", "4">>

\* f"cp{i}.yaml" / f"w{i}.yaml"
FileName(role, i) == role \o IdxStr[i] \o ".yaml"

Produced(role) == Len(SelectSeq(generated, LAMBDA e : e.role = role))

AllProduced == Len(generated) = Len(a.control_planes) + Len(a.workers)

ArgsUnchanged == UNCHANGED <<a, cmd, talosconfig, insecure, tplfiles>>

\* yaml_load of the two templates; it raises when the generator left none
LoadTemplates ==
    /\ pc = "create_node_configs"
    /\ cp_tpl = 0
    /\ IF tplfiles = <<>>
       THEN /\ pc' = "crashed"
            /\ exit_code' = 1
            /\ log' = Append(log, Event("raise", "controlplane.yaml"))
            /\ UNCHANGED <<heap, cp_tpl, wk_tpl>>
       ELSE /\ heap' = yaml_load(yaml_load(<<>>, tplfiles[1]), tplfiles[2])
            /\ cp_tpl' = 1
            /\ wk_tpl' = Len(tplfiles[1]) + 1
            /\ UNCHANGED <<pc, exit_code, log>>
    /\ ArgsUnchanged
    /\ UNCHANGED <<out, generated, nvalidated, docs, tpl0>>

\* one iteration of a loop: patch, dump to the file, remember the path
Produce(role, base, p) ==
    LET i == Produced(role) + 1
        r == patch_node(heap, base, p)
    IN  IF r.ok
        THEN /\ out' = (FileName(role, i) :> yaml_dump(r.h, r.root)) @@ out
             /\ generated' = Append(generated, [role |-> role, idx |-> i])
             /\ heap' = Collect(r.h, Len(heap))
             /\ log' = Append(log, Event("produce", FileName(role, i)))
             /\ UNCHANGED <<pc, exit_code>>
        ELSE /\ pc' = "crashed"
             /\ exit_code' = 1
             /\ heap' = Collect(r.h, Len(heap))
             /\ log' = Append(log, Event("raise", FileName(role, i)))
             /\ UNCHANGED <<out, generated>>

\* mutant of WorkerVip: the workers are given the VIP too
WorkerVipShared == a.vip

\* the worker call passes no vip: the parameter keeps its default, None
WorkerVip == None

\* getattr(a, "enable_ccm", False)
EnableCcm == a.enable_ccm

\* for i, ip in enumerate(a.control_planes, 1): ...
PatchControlPlane ==
    /\ pc = "create_node_configs"
    /\ cp_tpl # 0
    /\ Produced("cp") < Len(a.control_planes)
    /\ Produce("cp", cp_tpl,
               NodeParams(a.control_planes[Produced("cp") + 1], a.vip, EnableCcm))
    /\ ArgsUnchanged
    /\ UNCHANGED <<cp_tpl, wk_tpl, nvalidated, docs, tpl0>>

\* mutant of ControlPlanesDone: the worker loop does not wait for the first
ControlPlanesDoneEarly == TRUE

\* the second loop starts when the first has ended
ControlPlanesDone == Produced("cp") = Len(a.control_planes)

\* for i, ip in enumerate(a.workers, 1): ...
PatchWorker ==
    /\ pc = "create_node_configs"
    /\ cp_tpl # 0
    /\ ControlPlanesDone
    /\ Produced("w") < Len(a.workers)
    /\ Produce("w", wk_tpl, NodeParams(a.workers[Produced("w") + 1], WorkerVip, EnableCcm))
    /\ ArgsUnchanged
    /\ UNCHANGED <<cp_tpl, wk_tpl, nvalidated, docs, tpl0>>

NextToValidate == generated[nvalidated + 1]

\* validate_files: the validator accepts the next file
Validate ==
    /\ pc = "create_node_configs"
    /\ cp_tpl # 0
    /\ AllProduced
    /\ nvalidated < Len(generated)
    /\ nvalidated' = nvalidated + 1
    /\ log' = Append(log, Event("validate", FileName(NextToValidate.role, NextToValidate.idx)))
    /\ ArgsUnchanged
    /\ UNCHANGED <<pc, exit_code, heap, cp_tpl, wk_tpl, out, generated, docs, tpl0>>

\* validate_files: the validator rejects the next file and sh exits
ValidateFails(rc) ==
    /\ pc = "create_node_configs"
    /\ cp_tpl # 0
    /\ AllProduced
    /\ nvalidated < Len(generated)
    /\ nvalidated' = IF sh(rc).pc = "exited" THEN nvalidated ELSE nvalidated + 1
    /\ pc' = sh(rc).pc
    /\ exit_code' = sh(rc).exit_code
    /\ log' = Append(log, Event("validate-failed",
                                FileName(NextToValidate.role, NextToValidate.idx)))
    /\ ArgsUnchanged
    /\ UNCHANGED <<heap, cp_tpl, wk_tpl, out, generated, docs, tpl0>>

\* main, after create_node_configs: the success line, then the runbook, whose
\* bootstrap text reads control_planes[0]
Report ==
    /\ pc = "create_node_configs"
    /\ cp_tpl # 0
    /\ AllProduced
    /\ nvalidated = Len(generated)
    /\ log' = Append(log, Event("report", "success"))
    /\ IF BootstrapPhase(a) /\ a.control_planes = <<>>
       THEN pc' = "crashed" /\ exit_code' = 1
       ELSE pc' = "done" /\ exit_code' = 0
    /\ ArgsUnchanged
    /\ NodeStateUnchanged

(***************************************************************************)
(* The argument values a run starts from (after the CSV split of main).    *)
(***************************************************************************)
SeqsUpTo(S, n) == UNION {[1..k -> S] : k \in 0..n}

Endpoints == {"10.0.0.11:6443", "https://k8s.example:6443"}

\* the addresses of a topology, in order
TopologyIPs == <<"10.0.0.11", "10.0.0.12", "10.0.0.13", "10.0.0.14">>
WorkerTopologyIPs == <<"10.0.0.21", "10.0.0.22", "10.0.0.23", "10.0.0.24">>

InitRun ==
    /\ pc = "gen_base_configs"
    /\ cmd = NoCmd /\ talosconfig = <<>> /\ insecure = <<>> /\ tplfiles = <<>>
    /\ heap = <<>> /\ cp_tpl = 0 /\ wk_tpl = 0 /\ out = <<>> /\ generated = <<>>
    /\ nvalidated = 0 /\ log = <<>> /\ exit_code = -1 /\ docs = <<>> /\ tpl0 = {}

\* a whole run: topologies of every size up to the bounds
Init ==
    /\ InitRun
    /\ \E vip \in {None, Some(""), Some(VipIP)},
          n \in 0..MaxCP, m \in 0..MaxWorkers,
          bp \in BOOLEAN, ha \in BOOLEAN, ccm \in BOOLEAN :
          a = [vip |-> vip, control_planes |-> SubSeq(TopologyIPs, 1, n),
               workers |-> SubSeq(WorkerTopologyIPs, 1, m),
               endpoint |-> "10.0.0.11:6443",
               bootstrap_phase |-> bp, ha_phase |-> ha, enable_ccm |-> ccm]

GenNext ==
    \/ GenBaseConfigsRaises
    \/ \E rc \in ReturnCodes : GenBaseConfigsFails(rc)
    \/ \E ocp \in ControlPlaneTemplates, owk \in WorkerTemplates, tc \in GeneratedTalosconfigs :
          gen_base_configs(ocp, owk, tc)

Next ==
    \/ GenNext
    \/ LoadTemplates
    \/ PatchControlPlane
    \/ PatchWorker
    \/ Validate
    \/ \E rc \in ReturnCodes : ValidateFails(rc)
    \/ Report

Spec == Init /\ [][Next]_vars

\* gen_base_configs alone: every VIP, every control-plane list with repeats
InitGen ==
    /\ InitRun
    /\ \E vip \in {None, Some(""), Some(VipIP)} \cup {Some(ip) : ip \in CpIPs},
          cps \in SeqsUpTo(CpIPs, MaxCP), ep \in Endpoints,
          bp \in BOOLEAN, ha \in BOOLEAN :
          a = [vip |-> vip, control_planes |-> cps, workers |-> <<>>, endpoint |-> ep,
               bootstrap_phase |-> bp, ha_phase |-> ha, enable_ccm |-> FALSE]

SpecGen == InitGen /\ [][GenNext]_vars

(***************************************************************************)
(* Claims about patch_node, under SpecPatch.                               *)
(***************************************************************************)
DocDump(i) == yaml_dump(heap, docs[i])

\* the objects two live documents (or a document and the template) share
Shared(r1, r2) == Reach(heap, r1) \cap Reach(heap, r2)

\* C1 (isolation): after every patch_node call, and after any later write
\* into the network, install or kubelet section of a returned document, the
\* template still has the content it was loaded with, no returned document
\* shares an object with the template or with another returned document, and
\* a write into one returned document changes the content of no other one.
Isolation ==
    /\ [](/\ yaml_dump(heap, cp_tpl) = tpl0
          /\ \A i \in 1..Len(docs) :
                /\ Shared(docs[i], cp_tpl) = {}
                /\ \A j \in 1..Len(docs) : i # j => Shared(docs[i], docs[j]) = {})
    /\ [][pc' = "mutated" =>
            Cardinality({i \in 1..Len(docs) : yaml_dump(heap', docs[i]) # DocDump(i)}) = 1]_vars

\* C1 witness: two documents were produced from one template that has a
\* network section, and one of them was then written into
IsolationWitness ==
    /\ pc = "mutated"
    /\ Len(docs) = 2
    /\ [path |-> <<"machine", "network", "hostname">>, t |-> "str", s |-> "talos"] \in tpl0
    /\ DocDump(1) # DocDump(2)

PatchedPaths ==
    {<<"machine", "install", "disk">>, <<"machine", "install", "extensions">>,
     <<"machine", "install", "extraKernelArgs">>, <<"machine", "network", "interfaces">>,
     <<"machine", "network", "nameservers">>,
     <<"machine", "kubelet", "extraArgs", "rotate-server-certificates">>,
     <<"machine", "kubelet", "extraArgs", "cloud-provider">>,
     <<"machine", "features", "kubernetesTalosAPIAccess">>,
     <<"cluster", "externalCloudProvider">>}

IntermediateContainers ==
    {<<"machine">>, <<"machine", "install">>, <<"machine", "network">>,
     <<"machine", "kubelet">>, <<"machine", "kubelet", "extraArgs">>,
     <<"machine", "features">>}

IsPrefix(q, path) == Len(q) <= Len(path) /\ SubSeq(path, 1, Len(q)) = q

Patched(path) == \E q \in PatchedPaths : IsPrefix(q, path)

\* document D equals template T outside the patched paths, up to intermediate
\* containers created as empty dicts
FrameOf(D, T) ==
    /\ \A r \in T : ~Patched(r.path) => r \in D
    /\ \A r \in D : ~Patched(r.path) =>
          \/ r \in T
          \/ r.path \in IntermediateContainers /\ r.t = "dict"

\* C9 (frame): every document patch_node returns equals the template at
\* every path outside the ones the patcher sets; keys already present beside
\* them keep their template values, and a missing intermediate container is
\* created as a dict without replacing an existing one.
FramePatchNode ==
    pc = "patching" => \A i \in 1..Len(docs) : FrameOf(DocDump(i), tpl0)

\* C9 witness: a document was returned for a template that has sibling keys
\* under install and kubelet.extraArgs but no features section, which the
\* patcher created
FrameWitness ==
    /\ pc = "patching"
    /\ Len(docs) >= 1
    /\ [path |-> <<"machine", "install", "wipe">>, t |-> "bool", s |-> "False"] \in tpl0
    /\ [path |-> <<"machine", "kubelet", "extraArgs", "node-labels">>, t |-> "str", s |-> "zone=a"]
          \in DocDump(1)
    /\ [path |-> <<"machine", "features">>, t |-> "dict", s |-> ""] \notin tpl0
    /\ [path |-> <<"machine", "features">>, t |-> "dict", s |-> ""] \in DocDump(1)

(***************************************************************************)
(* Claims about gen_base_configs, under SpecGen.                           *)
(***************************************************************************)
VipConfigured == Truthy(a.vip)

\* C2 (endpoint with a VIP): with a VIP configured and at least one
\* control-plane IP, gen_base_configs runs the generator, and the endpoint
\* it passes is https://<control_planes[0]>:6443 in the bootstrap phase and
\* https://<vip>:6443 in the HA phase.
EndpointWithVip ==
    (pc # "gen_base_configs" /\ VipConfigured /\ Len(a.control_planes) >= 1) =>
        /\ cmd.called
        /\ BootstrapPhase(a) => cmd.endpoint_url = "https://" \o a.control_planes[1] \o ":6443"
        /\ ~BootstrapPhase(a) => cmd.endpoint_url = "https://" \o a.vip[1] \o ":6443"

\* C2 witness: bootstrap phase, a VIP and two control planes; the first one
\* is the endpoint
EndpointWithVipWitness ==
    /\ cmd.called
    /\ a.vip = Some(VipIP)
    /\ a.control_planes = <<"10.0.0.12", "10.0.0.11">>
    /\ a.bootstrap_phase /\ a.ha_phase
    /\ cmd.endpoint_url = "https://10.0.0.12:6443"

\* C3 as stated: without a VIP the endpoint passed to the generator is the
\* explicit endpoint string, character for character.
EndpointVerbatim ==
    (cmd.called /\ ~VipConfigured) => cmd.endpoint_url = a.endpoint

\* C3 as amended: without a VIP the endpoint passed to the generator is
\* "https://" followed by the explicit endpoint string, with nothing else
\* added, removed or reformatted.
EndpointPrefixed ==
    (cmd.called /\ ~VipConfigured) => cmd.endpoint_url = "https://" \o a.endpoint

\* C3 witness: no VIP, HA phase, the endpoint given as ip:port
EndpointPrefixedWitness ==
    /\ cmd.called
    /\ a.vip = None
    /\ ~BootstrapPhase(a)
    /\ a.endpoint = "10.0.0.11:6443"
    /\ cmd.endpoint_url = "https://10.0.0.11:6443"

\* the addresses the SAN list is built from, in order
SanInput == (IF VipConfigured THEN <<a.vip[1]>> ELSE <<>>) \o a.control_planes

FirstIndex(seq, x) == CHOOSE i \in 1..Len(seq) : seq[i] = x /\ \A j \in 1..(i - 1) : seq[j] # x

\* C8 (SAN list): the SAN list passed to the generator holds every address
\* of [VIP if present] + control planes exactly once, no other address, in
\* the order of their first occurrence.
SanList ==
    cmd.called =>
        /\ Elems(cmd.sans) = Elems(SanInput)
        /\ \A i, j \in 1..Len(cmd.sans) : i # j => cmd.sans[i] # cmd.sans[j]
        /\ \A i, j \in 1..Len(cmd.sans) :
              i < j => FirstIndex(SanInput, cmd.sans[i]) < FirstIndex(SanInput, cmd.sans[j])

\* C8 witness: the VIP equals the second control-plane IP and is kept once,
\* in front
SanListWitness ==
    /\ cmd.called
    /\ a.vip = Some("10.0.0.11")
    /\ a.control_planes = <<"10.0.0.12", "10.0.0.11">>
    /\ cmd.sans = <<"10.0.0.11", "10.0.0.12">>

(***************************************************************************)
(* Claims about the pipeline, under Spec.                                  *)
(***************************************************************************)
HasPath(D, path) == \E r \in D : r.path = path

Leaf(path, s) == [path |-> path, t |-> "str", s |-> s]

\* the documents written so far, as (role, index, content)
Written == {[role |-> e.role, idx |-> e.idx, doc |-> out[FileName(e.role, e.idx)]] :
               e \in Elems(generated)}

EcpPath == <<"cluster", "externalCloudProvider">>

ExactlyTheTwoManifests(D) ==
    /\ Leaf(EcpPath \o <<"manifests", "0">>, CcmManifest) \in D
    /\ Leaf(EcpPath \o <<"manifests", "1">>, ApproverManifest) \in D
    /\ Cardinality({r \in D : IsPrefix(EcpPath \o <<"manifests">>, r.path)}) = 3

\* C4 (external cloud provider placement): with CCM enabled, a generated
\* document carries cluster.externalCloudProvider if and only if it is a
\* control-plane document, and the block then lists exactly the two manifests.
ExternalCloudProviderPlacement ==
    a.enable_ccm =>
        \A w \in Written :
            /\ HasPath(w.doc, EcpPath) <=> w.role = "cp"
            /\ HasPath(w.doc, EcpPath) => ExactlyTheTwoManifests(w.doc)

\* the interface entries of a document that carry a vip block
VipBlocks(D) == {r \in D : r.path # <<>> /\ r.path[Len(r.path)] = "vip"}

ProductionOver == cp_tpl # 0 /\ AllProduced

\* C5 (VIP placement): once create_node_configs has written its documents,
\* each of cp1..cpN exists and, when a VIP is configured, has exactly one
\* interface entry with a vip block, holding that VIP; no worker document
\* w1..wM has a vip block, and without a VIP no document has one.
VipPlacement ==
    /\ \A w \in Written : (w.role = "w" \/ ~VipConfigured) => VipBlocks(w.doc) = {}
    /\ ProductionOver =>
          /\ \A i \in 1..Len(a.control_planes) : FileName("cp", i) \in DOMAIN out
          /\ \A i \in 1..Len(a.workers) : FileName("w", i) \in DOMAIN out
    /\ VipConfigured =>
          \A w \in Written : w.role = "cp" =>
              /\ Cardinality(VipBlocks(w.doc)) = 1
              /\ Leaf(<<"machine", "network", "interfaces", "0", "vip", "ip">>, a.vip[1]) \in w.doc

\* C5 witness: two control planes and two workers written with a VIP
VipPlacementWitness ==
    /\ ProductionOver
    /\ a.vip = Some(VipIP)
    /\ Len(a.control_planes) = 2 /\ Len(a.workers) = 2
    /\ Leaf(<<"machine", "network", "interfaces", "0", "vip", "ip">>, VipIP) \in out["cp2.yaml"]
    /\ Leaf(<<"machine", "network", "interfaces", "0", "addresses", "0">>, "10.0.0.22/24")
          \in out["w2.yaml"]

\* the files of a run in topology order: cp1..cpN, then w1..wM
ExpectedFiles ==
    [i \in 1..Len(a.control_planes) |-> FileName("cp", i)]
    \o [i \in 1..Len(a.workers) |-> FileName("w", i)]

FilesOf(ops) ==
    LET sel == SelectSeq(log, LAMBDA e : e.op \in ops)
    IN  [i \in 1..Len(sel) |-> sel[i].file]

IsWorkerFile(f) == \E i \in 1..Len(a.workers) : f = FileName("w", i)

Before(e1, k) == \E j \in 1..(k - 1) : log[j] = e1

\* C6 as stated: every control-plane document is produced and validated
\* before the production of the first worker document begins.
ControlPlanesValidatedBeforeWorkers ==
    \A k \in 1..Len(log) :
        (log[k].op = "produce" /\ IsWorkerFile(log[k].file)) =>
            \A i \in 1..Len(a.control_planes) :
                /\ Before(Event("produce", FileName("cp", i)), k)
                /\ Before(Event("validate", FileName("cp", i)), k)

\* C6 as amended: the documents are produced in the order cp1..cpN, w1..wM,
\* so every control-plane document is produced before the first worker
\* document; validation starts only when every document has been produced,
\* and takes the documents in that same order.
PipelineOrder ==
    /\ IsPrefix(FilesOf({"produce"}), ExpectedFiles)
    /\ IsPrefix(FilesOf({"validate", "validate-failed"}), ExpectedFiles)
    /\ \A k \in 1..Len(log) :
          log[k].op \in {"validate", "validate-failed"} =>
              \A f \in Elems(ExpectedFiles) : Before(Event("produce", f), k)

\* C6 witness: a finished run over two control planes and two workers
PipelineOrderWitness ==
    /\ pc = "done"
    /\ FilesOf({"produce"}) = <<"cp1.yaml", "cp2.yaml", "w1.yaml", "w2.yaml">>
    /\ FilesOf({"validate"}) = <<"cp1.yaml", "cp2.yaml", "w1.yaml", "w2.yaml">>

Happened(ops) == \E k \in 1..Len(log) : log[k].op \in ops

\* C7 (stop on collaborator failure): a generator or validator failure is the
\* last step of its run, which ends with a non-zero status; after a generator
\* failure no talosconfig is rewritten and no document is produced or
\* validated; success is reported only after the generator and the
\* validation of every document of the topology succeeded.
StopOnFailure ==
    /\ \A k \in 1..Len(log) :
          log[k].op \in {"generate-failed", "validate-failed"} =>
              /\ k = Len(log)
              /\ pc = "exited"
              /\ exit_code \in 1..255
    /\ Happened({"generate-failed"}) =>
          /\ talosconfig = <<>> /\ insecure = <<>>
          /\ out = <<>> /\ generated = <<>> /\ nvalidated = 0
    /\ Happened({"report"}) =>
          /\ Happened({"generate"})
          /\ ~Happened({"generate-failed", "validate-failed"})
          /\ FilesOf({"validate"}) = ExpectedFiles

\* C7 witness: the validator rejected the second of three documents, killed
\* by a signal; the third was never validated
StopOnFailureWitness ==
    /\ pc = "exited"
    /\ exit_code = 247
    /\ Len(generated) = 3
    /\ FilesOf({"validate"}) = <<"cp1.yaml">>
    /\ log[Len(log)] = Event("validate-failed", "cp2.yaml")

\* C10 (CCM gating, flag off): with the CCM flag off no generated document
\* has a cloud-provider kubelet argument, a kubernetesTalosAPIAccess feature
\* or a cluster.externalCloudProvider block.
CcmGatingOff ==
    ~a.enable_ccm =>
        \A w \in Written :
            /\ ~HasPath(w.doc, <<"machine", "kubelet", "extraArgs", "cloud-provider">>)
            /\ ~HasPath(w.doc, <<"machine", "features", "kubernetesTalosAPIAccess">>)
            /\ ~HasPath(w.doc, EcpPath)

\* C10 witness: a finished run with the flag off whose control-plane template
\* has a controlPlane section, the certificate rotation argument set all the same
CcmGatingOffWitness ==
    /\ pc = "done"
    /\ ~a.enable_ccm
    /\ Len(a.control_planes) = 2 /\ Len(a.workers) = 1
    /\ HasPath(out["cp1.yaml"], <<"cluster", "controlPlane", "endpoint">>)
    /\ Leaf(<<"machine", "kubelet", "extraArgs", "rotate-server-certificates">>, "true")
          \in out["w1.yaml"]

====
